---- MODULE Spec2Model ----
(***************************************************************************)
(* Model of pkg/cloudprovider/aws/instancetype.go: the derivation of the   *)
(* requirements, resources, overhead and price of an EC2 instance type.    *)
(*                                                                         *)
(* Representation                                                          *)
(*  - A Go string the code takes apart or builds (instance-type name,      *)
(*    architecture identifiers, GPU names, everything fmt.Sprint prints)   *)
(*    is a sequence of one-character strings.  A string the code only      *)
(*    copies (label keys, resource names, zones, capacity types) is a      *)
(*    TLA+ string.                                                         *)
(*  - A pointer is a sequence of length 0 (nil) or 1 (the pointee).        *)
(*  - MemoryInfo.SizeInMiB is a two-limb number [hi, lo] in base 2^16, so  *)
(*    that sizes whose scaled value does not fit in an int32 are           *)
(*    representable.  All other integers are small model integers.        *)
(*  - float64 products x * c (c = 0.925, 0.06, 0.01, 0.005, 0.0025) are    *)
(*    followed by a truncating integer conversion in the code; they are    *)
(*    computed as floor(x * num / den).  On the modelled range the IEEE    *)
(*    product truncates to the same integer (the constants' roundings are  *)
(*    far smaller than the 1/den spacing of the exact products, and the    *)
(*    constants 0.925, 0.01, 0.005, 0.0025 round upwards).                 *)
(***************************************************************************)
EXTENDS Integers, Sequences, FiniteSets, TLC

VARIABLES i, Limits, enablePodENI, requirements, resources, overhead, price

vars == <<i, Limits, enablePodENI, requirements, resources, overhead, price>>

(***************************************************************************)
(* Bounds of the explored inputs.                                          *)
(***************************************************************************)
MaxVCpus == 9
MaxInterfaces == 3
MaxIpv4 == 10
MaxCount == 2
MaxArchs == 2
MaxOfferings == 2
MaxGpus == 2
MaxAccelerators == 2

(***************************************************************************)
(* Pointers.                                                               *)
(***************************************************************************)
Nil == <<>>

Ptr(x) == <<x>>

(***************************************************************************)
(* fmt.Sprint / fmt.Sprintf("%d") of an integer: its decimal digits, with  *)
(* a leading "-" when negative.                                            *)
(***************************************************************************)
DigitChars == <<"0", "1", "2", "3", "4", "5", "6", "7", "8", "9">>

RECURSIVE Digits(_)
Digits(n) ==
    IF n < 10 THEN <<DigitChars[n + 1]>>
    ELSE Append(Digits(n \div 10), DigitChars[(n % 10) + 1])

\* the last decimal digit of |n| for n < 0
LastDigitNeg(n) == (10 - (n % 10)) % 10

Sprint(n) ==
    IF n >= 0 THEN Digits(n)
    ELSE LET d == LastDigitNeg(n)
             rest == -((n + d) \div 10)
         IN  <<"-">> \o (IF rest = 0 THEN <<>> ELSE Digits(rest)) \o <<DigitChars[d + 1]>>

(***************************************************************************)
(* Two-limb numbers: the value of [hi, lo] is hi * 2^16 + lo.              *)
(***************************************************************************)
LimbBase == 256 * 256

Wide(h, l) == [hi |-> h, lo |-> l]

\* w * k, for a small k
WideMul(w, k) ==
    LET p == w.lo * k
    IN  [hi |-> w.hi * k + (p \div LimbBase), lo |-> p % LimbBase]

\* floor(w / d), for a small d
WideDiv(w, d) ==
    LET r == w.hi % d
    IN  [hi |-> w.hi \div d, lo |-> (r * LimbBase + w.lo) \div d]

\* w mod d, for a small d
WideMod(w, d) == ((w.hi % d) * LimbBase + w.lo) % d

RECURSIVE WideDigits(_)
WideDigits(w) ==
    IF w.hi = 0 THEN Digits(w.lo)
    ELSE Append(WideDigits(WideDiv(w, 10)), DigitChars[WideMod(w, 10) + 1])

\* fmt.Sprint of a non-negative int64 held in two limbs
SprintWide(w) == WideDigits(w)

(***************************************************************************)
(* resources.Quantity / resource.MustParse: a decimal integer with an      *)
(* optional "Mi" suffix becomes a quantity [value, unit].                  *)
(***************************************************************************)
DigitValue(c) == CHOOSE d \in 0..9 : DigitChars[d + 1] = c

RECURSIVE ParseDigits(_, _, _)
ParseDigits(s, acc, sign) ==
    IF s = <<>> THEN acc
    ELSE ParseDigits(Tail(s), acc * 10 + sign * DigitValue(Head(s)), sign)

ParseInt(s) ==
    IF s # <<>> /\ Head(s) = "-" THEN ParseDigits(Tail(s), 0, -1)
    ELSE ParseDigits(s, 0, 1)

HasMiSuffix(s) == Len(s) >= 2 /\ s[Len(s) - 1] = "M" /\ s[Len(s)] = "i"

Quantity(s) ==
    IF HasMiSuffix(s)
    THEN [value |-> ParseInt(SubSeq(s, 1, Len(s) - 2)), unit |-> "Mi"]
    ELSE [value |-> ParseInt(s), unit |-> ""]

\* resource.NewMilliQuantity(n, resource.DecimalSI)
NewMilliQuantity(n) == [value |-> n, unit |-> "m"]

\* Quantity.MilliValue of a plain (unit "") or milli quantity
MilliValue(q) == IF q.unit = "m" THEN q.value ELSE 1000 * q.value

\* Quantity.Add on two milli quantities
QuantityAdd(q, r) == NewMilliQuantity(MilliValue(q) + MilliValue(r))

(***************************************************************************)
(* strings.Split(s, sep) for a one-character separator.                    *)
(***************************************************************************)
IndexOf(s, c) ==
    IF \E k \in 1..Len(s) : s[k] = c
    THEN CHOOSE k \in 1..Len(s) : s[k] = c /\ \A j \in 1..(k - 1) : s[j] # c
    ELSE 0

\* variant: strings.SplitN(s, sep, 2), a split at the first separator only
SplitFirst(s, sep) ==
    LET k == IndexOf(s, sep)
    IN  IF k = 0 THEN <<s>>
        ELSE <<SubSeq(s, 1, k - 1), SubSeq(s, k + 1, Len(s))>>

RECURSIVE Split(_, _)
Split(s, sep) ==
    LET k == IndexOf(s, sep)
    IN  IF k = 0 THEN <<s>>
        ELSE <<SubSeq(s, 1, k - 1)>> \o Split(SubSeq(s, k + 1, Len(s)), sep)

(***************************************************************************)
(* lowerKabobCase: spaces become hyphens, letters become lower case.       *)
(***************************************************************************)
UpperChars == <<"A", "B", "C", "D", "E", "F", "G", "H", "I", "J", "K", "L", "M",
                "N", "O", "P", "Q", "R", "S", "T", "U", "V", "W", "X", "Y", "Z">>

LowerChars == <<"a", "b", "c", "d", "e", "f", "g", "h", "i", "j", "k", "l", "m",
                "n", "o", "p", "q", "r", "s", "t", "u", "v", "w", "x", "y", "z">>

ToLower(c) ==
    IF \E k \in 1..Len(UpperChars) : UpperChars[k] = c
    THEN LowerChars[CHOOSE k \in 1..Len(UpperChars) : UpperChars[k] = c]
    ELSE c

ReplaceSpace(c) == IF c = " " THEN "-" ELSE c

lowerKabobCase(s) == [k \in 1..Len(s) |-> ToLower(ReplaceSpace(s[k]))]

(***************************************************************************)
(* Label keys, resource names and the architecture table.                  *)
(***************************************************************************)
LabelInstanceTypeStable == "node.kubernetes.io/instance-type"
LabelArchStable == "kubernetes.io/arch"
LabelOSStable == "kubernetes.io/os"
LabelTopologyZone == "topology.kubernetes.io/zone"
LabelCapacityType == "karpenter.sh/capacity-type"
InstanceCPULabelKey == "karpenter.k8s.aws/instance.cpu"
InstanceMemoryLabelKey == "karpenter.k8s.aws/instance.memory"
InstanceFamilyLabelKey == "karpenter.k8s.aws/instance.family"
InstanceSizeLabelKey == "karpenter.k8s.aws/instance.size"
InstanceGPUNameLabelKey == "karpenter.k8s.aws/instance.gpu.name"
InstanceGPUManufacturerLabelKey == "karpenter.k8s.aws/instance.gpu.manufacturer"
InstanceGPUCountLabelKey == "karpenter.k8s.aws/instance.gpu.count"
InstanceGPUMemoryLabelKey == "karpenter.k8s.aws/instance.gpu.memory"

ResourceCPU == "cpu"
ResourceMemory == "memory"
ResourceEphemeralStorage == "ephemeral-storage"
ResourcePods == "pods"
ResourceAWSPodENI == "vpc.amazonaws.com/pod-eni"
ResourceNVIDIAGPU == "nvidia.com/gpu"
ResourceAMDGPU == "amd.com/gpu"
ResourceAWSNeuron == "aws.amazon.com/neuron"
ResourceSmarterDevicesFuse == "smarter-devices/fuse"

OperatingSystemLinux == <<"l", "i", "n", "u", "x">>
ArchitectureAmd64 == <<"a", "m", "d", "6", "4">>
ArchitectureArm64 == <<"a", "r", "m", "6", "4">>
ArchX86_64 == <<"x", "8", "6", "_", "6", "4">>
NVIDIA == <<"N", "V", "I", "D", "I", "A">>
AMD == <<"A", "M", "D">>

\* the map AWSToKubeArchitectures
AWSToKubeArchitectures == (ArchX86_64 :> ArchitectureAmd64) @@ (ArchitectureArm64 :> ArchitectureArm64)

(***************************************************************************)
(* sets.NewSet(values...): the set of the listed values.                   *)
(***************************************************************************)
NewSet(values) == {values[k] : k \in 1..Len(values)}

\* aws.Int64Value: the pointee, or 0 for nil
Int64Value(p) == IF p = Nil THEN 0 ELSE p[1]

(***************************************************************************)
(* Name and architecture.                                                  *)
(***************************************************************************)
Name(it) == it.InstanceType

\* fmt.Sprint of a []string: "[a b c]"
RECURSIVE JoinSpace(_)
JoinSpace(list) ==
    IF list = <<>> THEN <<>>
    ELSE IF Len(list) = 1 THEN list[1]
    ELSE list[1] \o <<" ">> \o JoinSpace(Tail(list))

SprintSlice(list) == <<"[">> \o JoinSpace(list) \o <<"]">>

\* variant: the last recognised identifier of the list wins
RECURSIVE architectureLoopLast(_)
architectureLoopLast(archs) ==
    IF archs = <<>> THEN Nil
    ELSE LET later == architectureLoopLast(Tail(archs))
         IN  IF later # Nil THEN later
             ELSE IF Head(archs) \in DOMAIN AWSToKubeArchitectures
                  THEN Ptr(AWSToKubeArchitectures[Head(archs)])
                  ELSE Nil

RECURSIVE architectureLoop(_)
architectureLoop(archs) ==
    IF archs = <<>> THEN Nil
    ELSE IF Head(archs) \in DOMAIN AWSToKubeArchitectures
         THEN Ptr(AWSToKubeArchitectures[Head(archs)])
         ELSE architectureLoop(Tail(archs))

architecture(it) ==
    LET found == architectureLoop(it.ProcessorInfo.SupportedArchitectures)
    IN  IF found # Nil THEN found[1]
        ELSE SprintSlice(it.ProcessorInfo.SupportedArchitectures)

(***************************************************************************)
(* computeRequirements.  requirements.Add only ever adds keys that are     *)
(* not yet present, so it is the extension of the map by the new keys.     *)
(***************************************************************************)
\* variant: only the first offering is looked at
ZonesFirstOnly(it) == [k \in 1..(IF it.offerings = <<>> THEN 0 ELSE 1) |-> it.offerings[k].Zone]

Zones(it) == [k \in 1..Len(it.offerings) |-> it.offerings[k].Zone]

CapacityTypes(it) == [k \in 1..Len(it.offerings) |-> it.offerings[k].CapacityType]

baseRequirements(it) ==
    (LabelInstanceTypeStable :> NewSet(<<Name(it)>>)) @@
    (LabelArchStable :> NewSet(<<architecture(it)>>)) @@
    (LabelOSStable :> NewSet(<<OperatingSystemLinux>>)) @@
    (LabelTopologyZone :> NewSet(Zones(it))) @@
    (LabelCapacityType :> NewSet(CapacityTypes(it))) @@
    (InstanceCPULabelKey :> NewSet(<<Sprint(it.VCpuInfo.DefaultVCpus)>>)) @@
    (InstanceMemoryLabelKey :> NewSet(<<SprintWide(it.MemoryInfo.SizeInMiB)>>))

instanceTypeRequirements(it) ==
    LET instanceTypeParts == Split(it.InstanceType, ".")
    IN  IF Len(instanceTypeParts) = 2
        THEN (InstanceFamilyLabelKey :> NewSet(<<instanceTypeParts[1]>>)) @@
             (InstanceSizeLabelKey :> NewSet(<<instanceTypeParts[2]>>))
        ELSE <<>>

\* variant: labels of the first descriptor whenever there is one
gpuLabelConditionAny(it) == it.GpuInfo # Nil /\ Len(it.GpuInfo[1].Gpus) >= 1

gpuLabelCondition(it) == it.GpuInfo # Nil /\ Len(it.GpuInfo[1].Gpus) = 1

gpuRequirements(it) ==
    IF gpuLabelCondition(it)
    THEN LET gpu == it.GpuInfo[1].Gpus[1]
         IN  (InstanceGPUNameLabelKey :> NewSet(<<lowerKabobCase(gpu.Name)>>)) @@
             (InstanceGPUManufacturerLabelKey :> NewSet(<<lowerKabobCase(gpu.Manufacturer)>>)) @@
             (InstanceGPUCountLabelKey :> NewSet(<<Sprint(Int64Value(gpu.Count))>>)) @@
             (InstanceGPUMemoryLabelKey :> NewSet(<<Sprint(gpu.MemoryInfo.SizeInMiB)>>))
    ELSE <<>>

computeRequirements(it) ==
    baseRequirements(it) @@ instanceTypeRequirements(it) @@ gpuRequirements(it)

(***************************************************************************)
(* computeResources and the quantities it is made of.                      *)
(***************************************************************************)
cpu(it) == Quantity(Sprint(it.VCpuInfo.DefaultVCpus))

\* EC2VMAvailableMemoryFactor = .925, as the fraction 925 / 1000
EC2VMAvailableMemoryFactorNum == 925
EC2VMAvailableMemoryFactorDen == 1000

\* the integer part of float64(SizeInMiB) * EC2VMAvailableMemoryFactor
scaledMemory(w) ==
    WideDiv(WideMul(w, EC2VMAvailableMemoryFactorNum), EC2VMAvailableMemoryFactorDen)

MaxInt32 == 2147483647
MinInt32 == (-MaxInt32) - 1

FitsInt32(w) == w.hi < LimbBase \div 2

\* int32(f) for a float64 f >= 0 with integer part w.  Go leaves the result
\* of an out-of-range conversion to the implementation: the amd64 build
\* yields the minimum int32, the arm64 build saturates at the maximum.
Int32OfFloat(w) ==
    IF FitsInt32(w) THEN {w.hi * LimbBase + w.lo} ELSE {MinInt32, MaxInt32}

\* the results memory() can return
memory(it) ==
    {Quantity(Sprint(n) \o <<"M", "i">>) :
        n \in Int32OfFloat(scaledMemory(it.MemoryInfo.SizeInMiB))}

\* amifamily.GetAMIFamily(family, ...).EphemeralBlockDevice(): the root
\* device name declared by the AMI family (a token per family)
EphemeralBlockDevice(amiFamily) == <<"ephemeral-block-device", amiFamily>>

\* amifamily.DefaultEBS.VolumeSize
DefaultEBSVolumeSize == [value |-> "DefaultEBS.VolumeSize", unit |-> "Gi"]

\* amifamily.GetAMIFamily(family, ...).EphemeralBlockDeviceOverhead()
EphemeralBlockDeviceOverhead(amiFamily) ==
    [value |-> <<"ephemeral-block-device-overhead", amiFamily>>, unit |-> "Gi"]

RECURSIVE ephemeralStorageLoop(_, _)
ephemeralStorageLoop(mappings, ephemeralBlockDevice) ==
    IF mappings = <<>> THEN DefaultEBSVolumeSize
    ELSE IF Head(mappings).DeviceName = ephemeralBlockDevice
         THEN Head(mappings).EBS.VolumeSize
         ELSE ephemeralStorageLoop(Tail(mappings), ephemeralBlockDevice)

ephemeralStorage(it) ==
    ephemeralStorageLoop(it.provider.BlockDeviceMappings,
                         EphemeralBlockDevice(it.provider.AMIFamily))

eniLimitedPods(it) ==
    it.NetworkInfo.MaximumNetworkInterfaces * (it.NetworkInfo.Ipv4AddressesPerInterface - 1) + 2

\* variant: the override is capped by the network-derived limit
podsCapped(it) ==
    IF it.maxPods # Nil /\ it.maxPods[1] < eniLimitedPods(it) THEN Quantity(Sprint(it.maxPods[1]))
    ELSE Quantity(Sprint(eniLimitedPods(it)))

pods(it) ==
    IF it.maxPods # Nil THEN Quantity(Sprint(it.maxPods[1]))
    ELSE Quantity(Sprint(eniLimitedPods(it)))

\* variant: the feature flag is not consulted
awsPodENIUngated(it, enable) ==
    LET name == it.InstanceType
        ok == name \in DOMAIN Limits
    IN  IF ok /\ Limits[name].IsTrunkingCompatible
        THEN Quantity(Sprint(Limits[name].BranchInterface))
        ELSE Quantity(<<"0">>)

awsPodENI(it, enable) ==
    LET name == it.InstanceType
        ok == name \in DOMAIN Limits
    IN  IF enable /\ ok /\ Limits[name].IsTrunkingCompatible
        THEN Quantity(Sprint(Limits[name].BranchInterface))
        ELSE Quantity(<<"0">>)

Gpus(it) == IF it.GpuInfo # Nil THEN it.GpuInfo[1].Gpus ELSE <<>>

Accelerators(it) ==
    IF it.InferenceAcceleratorInfo # Nil THEN it.InferenceAcceleratorInfo[1].Accelerators
    ELSE <<>>

\* the loop of nvidiaGPUs / amdGPUs: count += *gpu.Count for the manufacturer
RECURSIVE manufacturerCount(_, _)
manufacturerCount(gpus, manufacturer) ==
    IF gpus = <<>> THEN 0
    ELSE (IF Head(gpus).Manufacturer = manufacturer THEN Head(gpus).Count[1] ELSE 0)
         + manufacturerCount(Tail(gpus), manufacturer)

nvidiaGPUs(it) == Quantity(Sprint(manufacturerCount(Gpus(it), NVIDIA)))

amdGPUs(it) == Quantity(Sprint(manufacturerCount(Gpus(it), AMD)))

RECURSIVE acceleratorCount(_)
acceleratorCount(accs) ==
    IF accs = <<>> THEN 0
    ELSE Head(accs).Count[1] + acceleratorCount(Tail(accs))

awsNeurons(it) == Quantity(Sprint(acceleratorCount(Accelerators(it))))

smarterDevicesFuse(it) == Quantity(Sprint(1))

\* computeResources dereferences gpu.Count and accelerator.Count unchecked:
\* a nil count of an NVIDIA or AMD descriptor, or of any accelerator, panics
computeResourcesPanics(it) ==
    \/ \E k \in 1..Len(Gpus(it)) :
          /\ Gpus(it)[k].Manufacturer \in {NVIDIA, AMD}
          /\ Gpus(it)[k].Count = Nil
    \/ \E k \in 1..Len(Accelerators(it)) : Accelerators(it)[k].Count = Nil

\* the resource lists computeResources(enablePodENI) can return (none when
\* it panics, several when the int32 conversion of the memory is out of range)
computeResources(it, enable) ==
    IF computeResourcesPanics(it) THEN {}
    ELSE {(ResourceCPU :> cpu(it)) @@
          (ResourceMemory :> m) @@
          (ResourceEphemeralStorage :> ephemeralStorage(it)) @@
          (ResourcePods :> pods(it)) @@
          (ResourceAWSPodENI :> awsPodENI(it, enable)) @@
          (ResourceNVIDIAGPU :> nvidiaGPUs(it)) @@
          (ResourceAMDGPU :> amdGPUs(it)) @@
          (ResourceAWSNeuron :> awsNeurons(it)) @@
          (ResourceSmarterDevicesFuse :> smarterDevicesFuse(it)) : m \in memory(it)}

(***************************************************************************)
(* computeOverhead.                                                        *)
(***************************************************************************)
\* 1 << 31 is one more than the largest model integer; MilliValue is a
\* multiple of 1000, so cpu < 1 << 31 exactly when cpu < 2147483647
CpuRangeEnd == MaxInt32

\* {start, end, percentage}; the percentage is the fraction num / den
cpuRanges ==
    << [start |-> 0, end |-> 1000, num |-> 6, den |-> 100],
       [start |-> 1000, end |-> 2000, num |-> 1, den |-> 100],
       [start |-> 2000, end |-> 4000, num |-> 1, den |-> 200],
       [start |-> 4000, end |-> CpuRangeEnd, num |-> 1, den |-> 400] >>

\* variant: the band's share rounded up instead of truncated
rangeOverheadRoundedUp(r, cpuRange) == (r * cpuRange.num + cpuRange.den - 1) \div cpuRange.den

\* int64(r * cpuRange.percentage)
rangeOverhead(r, cpuRange) == (r * cpuRange.num) \div cpuRange.den

RECURSIVE cpuOverheadLoop(_, _, _)
cpuOverheadLoop(it, ranges, cpuOverhead) ==
    IF ranges = <<>> THEN cpuOverhead
    ELSE LET cpuRange == Head(ranges)
             cpuMilli == MilliValue(cpu(it))
         IN  IF cpuMilli >= cpuRange.start
             THEN LET r == IF cpuMilli < cpuRange.end
                           THEN cpuMilli - cpuRange.start
                           ELSE cpuRange.end - cpuRange.start
                  IN  cpuOverheadLoop(it, Tail(ranges),
                          QuantityAdd(cpuOverhead, NewMilliQuantity(rangeOverhead(r, cpuRange))))
             ELSE cpuOverheadLoop(it, Tail(ranges), cpuOverhead)

\* variant: the kube-reserved memory follows pods(), override included
overheadMemoryFromPods(it) ==
    Quantity(Sprint(((11 * pods(it).value) + 255) + 100 + 100) \o <<"M", "i">>)

overheadMemory(it) ==
    Quantity(Sprint(((11 * eniLimitedPods(it)) + 255) + 100 + 100) \o <<"M", "i">>)

computeOverhead(it) ==
    (ResourceCPU :> cpuOverheadLoop(it, cpuRanges, NewMilliQuantity(100))) @@
    (ResourceMemory :> overheadMemory(it)) @@
    (ResourceEphemeralStorage :> EphemeralBlockDeviceOverhead(it.provider.AMIFamily))

(***************************************************************************)
(* Price.  The float64 sum is the exact rational whole + frac / PriceDen,  *)
(* PriceDen being the common denominator of the weights 1/1024 and 1/100.  *)
(***************************************************************************)
GPUCostWeight == 5
InferenceCostWeight == 5
CPUCostWeight == 1
MemoryMBCostWeightDen == 1024
LocalStorageWeightDen == 100
PriceDen == 25 * MemoryMBCostWeightDen

Rat(w, f) == [whole |-> w + (f \div PriceDen), frac |-> f % PriceDen]

RatAdd(a, b) == Rat(a.whole + b.whole, a.frac + b.frac)

RatLess(a, b) == a.whole < b.whole \/ (a.whole = b.whole /\ a.frac < b.frac)

\* gpuCount / infCount: the counts that are not nil, summed
RECURSIVE countSum(_)
countSum(list) ==
    IF list = <<>> THEN 0
    ELSE (IF Head(list).Count # Nil THEN Head(list).Count[1] ELSE 0) + countSum(Tail(list))

localStorageGiBs(it) ==
    IF it.InstanceStorageInfo # Nil THEN it.InstanceStorageInfo[1].TotalSizeInGB ELSE 0

\* MemoryMBCostWeight * float64(SizeInMiB)
memoryCost(w) ==
    Rat(w.hi * (LimbBase \div MemoryMBCostWeightDen) + (w.lo \div MemoryMBCostWeightDen),
        (w.lo % MemoryMBCostWeightDen) * (PriceDen \div MemoryMBCostWeightDen))

\* localStorageGiBs * LocalStorageWeight
localStorageCost(gb) ==
    Rat(gb \div LocalStorageWeightDen,
        (gb % LocalStorageWeightDen) * (PriceDen \div LocalStorageWeightDen))

\* variant: the inference accelerators are left out of the sum
PriceWithoutInference(it) ==
    LET gpuCount == countSum(Gpus(it))
    IN  RatAdd(RatAdd(RatAdd(
            Rat(CPUCostWeight * it.VCpuInfo.DefaultVCpus, 0),
            memoryCost(it.MemoryInfo.SizeInMiB)),
            Rat(GPUCostWeight * gpuCount, 0)),
            localStorageCost(localStorageGiBs(it)))

Price(it) ==
    LET gpuCount == countSum(Gpus(it))
        infCount == countSum(Accelerators(it))
    IN  RatAdd(RatAdd(RatAdd(RatAdd(
            Rat(CPUCostWeight * it.VCpuInfo.DefaultVCpus, 0),
            memoryCost(it.MemoryInfo.SizeInMiB)),
            Rat(GPUCostWeight * gpuCount, 0)),
            Rat(InferenceCostWeight * infCount, 0)),
            localStorageCost(localStorageGiBs(it)))

(***************************************************************************)
(* The inputs explored: instance-type descriptions as DescribeInstanceTypes*)
(* and the provisioner hand them over.  Required sections (VCpuInfo,       *)
(* MemoryInfo, NetworkInfo, ProcessorInfo, a GPU's name, manufacturer and  *)
(* memory) are present; counts may be nil.                                 *)
(***************************************************************************)
SeqsUpTo(S, n) == UNION {[1..k -> S] : k \in 0..n}

M5Large == <<"m", "5", ".", "l", "a", "r", "g", "e">>
Metal == <<"m", "e", "t", "a", "l">>
TwoDots == <<"u", ".", "6", ".", "x">>
Names == {M5Large, Metal, TwoDots, <<>>, <<".">>, <<"m", "5", ".">>}

ArchIds == {ArchX86_64, ArchitectureArm64, ArchitectureAmd64,
            <<"i", "3", "8", "6">>, <<"g", "r", "a", "v", "i", "t", "o", "n", "3", "x">>}

ArchLists == SeqsUpTo(ArchIds, MaxArchs)

OfferingValues == [Zone : {"us-west-2a", "us-west-2b"}, CapacityType : {"on-demand", "spot"}]

OfferingLists == SeqsUpTo(OfferingValues, MaxOfferings)

Counts == {Nil} \cup {Ptr(n) : n \in 0..MaxCount}

GpuModels ==
    { [Name |-> <<"A", "1", "0", "0">>, Manufacturer |-> NVIDIA, MemoryInfo |-> [SizeInMiB |-> 40960]],
      [Name |-> <<"T", "4">>, Manufacturer |-> NVIDIA, MemoryInfo |-> [SizeInMiB |-> 16384]],
      [Name |-> <<"R", "a", "d", "e", "o", "n", " ", "P", "r", "o">>, Manufacturer |-> AMD,
       MemoryInfo |-> [SizeInMiB |-> 8192]] }

GpuDescriptors ==
    { [Name |-> g.Name, Manufacturer |-> g.Manufacturer, Count |-> c, MemoryInfo |-> g.MemoryInfo] :
        g \in GpuModels, c \in Counts }

GpuInfos(n) == {Nil} \cup {Ptr([Gpus |-> l]) : l \in SeqsUpTo(GpuDescriptors, n)}

AcceleratorInfos(n) ==
    {Nil} \cup {Ptr([Accelerators |-> l]) : l \in SeqsUpTo([Count : Counts], n)}

StorageInfos == {Nil} \cup {Ptr([TotalSizeInGB |-> g]) : g \in {0, 1, 99, 100, 950}}

\* sizes around 8 GiB and around the first size whose scaled value is 2^31
MemorySizes ==
    {Wide(h, l) : h \in {0, 1, 35424, LimbBase - 1},
                  l \in {0, 40, 1023, 8192, 56679, 56680, LimbBase - 1}}

MaxPodsValues == {Nil, Ptr(0), Ptr(29), Ptr(110)}

Providers ==
    { [AMIFamily |-> f, BlockDeviceMappings |-> m] :
        f \in {"AL2", "Bottlerocket"},
        m \in SeqsUpTo({[DeviceName |-> EphemeralBlockDevice("AL2"),
                         EBS |-> [VolumeSize |-> [value |-> 100, unit |-> "Gi"]]],
                        [DeviceName |-> <<"other-device">>,
                         EBS |-> [VolumeSize |-> [value |-> 50, unit |-> "Gi"]]]}, 2) }

LimitEntries == [IsTrunkingCompatible : BOOLEAN, BranchInterface : {0, 9}]

\* the tables vpc.Limits may be: any entries for any of two instance types
LimitsTables == UNION {[D -> LimitEntries] : D \in SUBSET {M5Large, Metal}}

DefaultLimits == (M5Large :> [IsTrunkingCompatible |-> TRUE, BranchInterface |-> 9])

DefaultInstanceType ==
    [InstanceType |-> M5Large,
     VCpuInfo |-> [DefaultVCpus |-> 2],
     MemoryInfo |-> [SizeInMiB |-> Wide(0, 8192)],
     GpuInfo |-> Nil,
     InferenceAcceleratorInfo |-> Nil,
     InstanceStorageInfo |-> Nil,
     NetworkInfo |-> [MaximumNetworkInterfaces |-> 3, Ipv4AddressesPerInterface |-> 10],
     ProcessorInfo |-> [SupportedArchitectures |-> <<ArchX86_64>>],
     offerings |-> <<>>,
     maxPods |-> Nil,
     provider |-> [AMIFamily |-> "AL2", BlockDeviceMappings |-> <<>>]]

D == DefaultInstanceType

\* CPU count, network limits and pod-capacity override
CapacityInputs ==
    { [D EXCEPT !.VCpuInfo.DefaultVCpus = v,
                !.NetworkInfo = [MaximumNetworkInterfaces |-> n, Ipv4AddressesPerInterface |-> a],
                !.maxPods = p] :
        v \in 0..MaxVCpus, n \in 0..MaxInterfaces, a \in 0..MaxIpv4, p \in MaxPodsValues }

\* memory size, CPU count and local storage
MemoryInputs ==
    { [D EXCEPT !.MemoryInfo.SizeInMiB = m, !.VCpuInfo.DefaultVCpus = v,
                !.InstanceStorageInfo = st] :
        m \in MemorySizes, v \in 0..MaxVCpus, st \in StorageInfos }

\* name and architectures, name and offerings
LabelInputs ==
    { [D EXCEPT !.InstanceType = n, !.ProcessorInfo.SupportedArchitectures = a] :
        n \in Names, a \in ArchLists }
    \cup
    { [D EXCEPT !.InstanceType = n, !.offerings = o] : n \in Names, o \in OfferingLists }

\* GPU and accelerator descriptors
DeviceInputs ==
    { [D EXCEPT !.GpuInfo = g] : g \in GpuInfos(MaxGpus) }
    \cup
    { [D EXCEPT !.InferenceAcceleratorInfo = a] : a \in AcceleratorInfos(MaxAccelerators) }
    \cup
    { [D EXCEPT !.GpuInfo = g, !.InferenceAcceleratorInfo = a, !.InstanceStorageInfo = st] :
        g \in GpuInfos(1), a \in AcceleratorInfos(1), st \in StorageInfos }

ProviderInputs == { [D EXCEPT !.provider = p] : p \in Providers }

NameInputs == { [D EXCEPT !.InstanceType = n] : n \in Names }

Init ==
    /\ \/ /\ i \in CapacityInputs \cup MemoryInputs \cup LabelInputs
                   \cup DeviceInputs \cup ProviderInputs
          /\ Limits = DefaultLimits
       \/ /\ i \in NameInputs
          /\ Limits \in LimitsTables
    /\ enablePodENI = FALSE
    /\ requirements = {}
    /\ resources = {}
    /\ overhead = {}
    /\ price = {}

(***************************************************************************)
(* The operations.  Each derived value is empty until the method that      *)
(* computes it has returned, and then holds what it returned.              *)
(***************************************************************************)
DoComputeRequirements ==
    /\ requirements' = {computeRequirements(i)}
    /\ UNCHANGED <<i, Limits, enablePodENI, resources, overhead, price>>

DoComputeResources ==
    \E enable \in BOOLEAN :
        \E r \in computeResources(i, enable) :
            /\ resources' = {r}
            /\ enablePodENI' = enable
            /\ UNCHANGED <<i, Limits, requirements, overhead, price>>

DoComputeOverhead ==
    /\ overhead' = {computeOverhead(i)}
    /\ UNCHANGED <<i, Limits, enablePodENI, requirements, resources, price>>

DoPrice ==
    /\ price' = {Price(i)}
    /\ UNCHANGED <<i, Limits, enablePodENI, requirements, resources, overhead>>

Next ==
    \/ DoComputeRequirements
    \/ DoComputeResources
    \/ DoComputeOverhead
    \/ DoPrice

Spec == Init /\ [][Next]_vars

(***************************************************************************)
(* Properties.                                                             *)
(***************************************************************************)
Min(a, b) == IF a < b THEN a ELSE b

VCpus == i.VCpuInfo.DefaultVCpus

TotalMilli == 1000 * VCpus

\* the part of [start, end] below the instance's total milli-CPU
BandSpan(start, end) == IF TotalMilli >= start THEN Min(TotalMilli, end) - start ELSE 0

\* the part of the last band, which ends at 2^31, above every total explored
LastBandSpan(start) == IF TotalMilli >= start THEN TotalMilli - start ELSE 0

NetworkPods ==
    i.NetworkInfo.MaximumNetworkInterfaces * (i.NetworkInfo.Ipv4AddressesPerInterface - 1) + 2

\* C1 as stated: the CPU overhead is 100 milli-units plus the exact share
\* span * rate of every band (6%, 1%, 0.5%, 0.25%), with no rounding.
\* Both sides are multiplied by 400 to stay in the integers.
C1_ExactBandShares ==
    \A o \in overhead :
        /\ o[ResourceCPU].unit = "m"
        /\ 400 * (o[ResourceCPU].value - 100) =
              24 * BandSpan(0, 1000) + 4 * BandSpan(1000, 2000)
              + 2 * BandSpan(2000, 4000) + LastBandSpan(4000)

\* C1 amended: the CPU overhead is 100 milli-units plus, for every band, the
\* share span * rate truncated to a whole number of milli-units; 2 vCPUs give
\* 170 milli-units.
C1_TruncatedBandShares ==
    \A o \in overhead :
        /\ o[ResourceCPU].unit = "m"
        /\ o[ResourceCPU].value =
              100 + ((6 * BandSpan(0, 1000)) \div 100) + (BandSpan(1000, 2000) \div 100)
              + (BandSpan(2000, 4000) \div 200) + (LastBandSpan(4000) \div 400)
        /\ VCpus = 2 => o[ResourceCPU].value = 170

\* the overhead of a 5-vCPU type, whose last band share is 2.5 milli-units
C1_Witness == overhead # {} /\ VCpus = 5

\* C2: the memory overhead is (11 * P + 255) + 100 + 100 MiB for the
\* network-derived pod count P, whether or not maxPods is set; P = 29 gives
\* 774 MiB.
C2_MemoryOverheadIgnoresOverride ==
    \A o \in overhead :
        /\ o[ResourceMemory] = [value |-> (11 * NetworkPods + 255) + 100 + 100, unit |-> "Mi"]
        /\ NetworkPods = 29 => o[ResourceMemory].value = 774

\* the overhead of a type with P = 29 under an override of 110 pods
C2_Witness ==
    /\ overhead # {}
    /\ i.maxPods = Ptr(110)
    /\ NetworkPods = 29

\* C3: the pods resource is the override when one is set, and otherwise
\* maxNetworkInterfaces * (ipv4AddressesPerInterface - 1) + 2.
C3_PodsOverrideOrNetworkLimit ==
    \A r \in resources :
        /\ i.maxPods # Nil => r[ResourcePods] = [value |-> i.maxPods[1], unit |-> ""]
        /\ i.maxPods = Nil => r[ResourcePods] = [value |-> NetworkPods, unit |-> ""]
        /\ (i.maxPods = Nil /\ i.NetworkInfo.MaximumNetworkInterfaces = 3
              /\ i.NetworkInfo.Ipv4AddressesPerInterface = 10) => r[ResourcePods].value = 29

\* the resources of a type whose override (0 pods) is below its network limit
C3_Witness ==
    /\ resources # {}
    /\ i.maxPods = Ptr(0)
    /\ NetworkPods = 29

\* floor(SizeInMiB * 0.925) = floor(SizeInMiB * 37 / 40), in two limbs
ExpectedMemory == WideDiv(WideMul(i.MemoryInfo.SizeInMiB, 37), 40)

\* C4: the memory resource is floor(SizeInMiB * 0.925) MiB for every size,
\* also when that value needs more than 32 bits.
C4_MemoryIsScaledSize ==
    \A r \in resources :
        /\ r[ResourceMemory].unit = "Mi"
        /\ ExpectedMemory.hi < LimbBase \div 2
        /\ r[ResourceMemory].value = ExpectedMemory.hi * LimbBase + ExpectedMemory.lo

\* the distinct GPU models (name and manufacturer) the metadata reports
DistinctGpuModels ==
    IF i.GpuInfo = Nil THEN {}
    ELSE {<<i.GpuInfo[1].Gpus[k].Name, i.GpuInfo[1].Gpus[k].Manufacturer>> :
            k \in 1..Len(i.GpuInfo[1].Gpus)}

GpuLabelKeys ==
    {InstanceGPUNameLabelKey, InstanceGPUManufacturerLabelKey,
     InstanceGPUCountLabelKey, InstanceGPUMemoryLabelKey}

\* the counts of the descriptors k..Len of the given manufacturer, summed
RECURSIVE SumOfCounts(_, _)
SumOfCounts(k, manufacturer) ==
    IF i.GpuInfo = Nil \/ k > Len(i.GpuInfo[1].Gpus) THEN 0
    ELSE (IF i.GpuInfo[1].Gpus[k].Manufacturer = manufacturer
          THEN i.GpuInfo[1].Gpus[k].Count[1] ELSE 0) + SumOfCounts(k + 1, manufacturer)

\* C5: GPU labels appear only for exactly one distinct GPU model and never
\* for two or more, all four or none; the NVIDIA and AMD resources are the
\* per-manufacturer sums of the descriptor counts either way.
C5_GpuLabelsAndCounts ==
    /\ \A q \in requirements :
          /\ (GpuLabelKeys \cap DOMAIN q) \in {{}, GpuLabelKeys}
          /\ (GpuLabelKeys \cap DOMAIN q) # {} => Cardinality(DistinctGpuModels) = 1
          /\ Cardinality(DistinctGpuModels) >= 2 => (GpuLabelKeys \cap DOMAIN q) = {}
    /\ \A r \in resources :
          /\ r[ResourceNVIDIAGPU] = [value |-> SumOfCounts(1, NVIDIA), unit |-> ""]
          /\ r[ResourceAMDGPU] = [value |-> SumOfCounts(1, AMD), unit |-> ""]

\* requirements and resources of a type with an NVIDIA and an AMD GPU
C5_Witness ==
    /\ requirements # {}
    /\ resources # {}
    /\ Cardinality(DistinctGpuModels) = 2
    /\ \E r \in resources : r[ResourceNVIDIAGPU].value = 2 /\ r[ResourceAMDGPU].value = 1

\* C6: the pod-ENI resource is the table's branch-interface count when the
\* flag is on, the type is in the table and its entry is trunking-compatible,
\* and 0 otherwise; with the flag off it is 0.
C6_PodENIGated ==
    \A r \in resources :
        LET name == i.InstanceType
            listed == name \in DOMAIN Limits
        IN  /\ (enablePodENI /\ listed /\ Limits[name].IsTrunkingCompatible)
                  => r[ResourceAWSPodENI] = [value |-> Limits[name].BranchInterface, unit |-> ""]
            /\ ~(enablePodENI /\ listed /\ Limits[name].IsTrunkingCompatible)
                  => r[ResourceAWSPodENI] = [value |-> 0, unit |-> ""]
            /\ ~enablePodENI => r[ResourceAWSPodENI].value = 0

\* resources computed with the flag off for a trunking-compatible type with
\* 9 branch interfaces
C6_Witness ==
    /\ resources # {}
    /\ ~enablePodENI
    /\ i.InstanceType \in DOMAIN Limits
    /\ Limits[i.InstanceType] = [IsTrunkingCompatible |-> TRUE, BranchInterface |-> 9]

ReportedArchs == i.ProcessorInfo.SupportedArchitectures

KnownArchs == {ArchX86_64, ArchitectureArm64}

Canonical(a) == IF a = ArchX86_64 THEN ArchitectureAmd64 ELSE ArchitectureArm64

\* C7: the architecture is the canonical value of the first reported
\* identifier the table knows; when the table knows none, it is the bracketed
\* raw list, which is never amd64 or arm64.
C7_ArchitectureFirstKnown ==
    \A q \in requirements :
        \E a \in q[LabelArchStable] :
            /\ q[LabelArchStable] = {a}
            /\ \A k \in 1..Len(ReportedArchs) :
                  (/\ ReportedArchs[k] \in KnownArchs
                   /\ \A j \in 1..(k - 1) : ReportedArchs[j] \notin KnownArchs)
                  => a = Canonical(ReportedArchs[k])
            /\ (\A k \in 1..Len(ReportedArchs) : ReportedArchs[k] \notin KnownArchs)
                  => /\ a \notin {ArchitectureAmd64, ArchitectureArm64}
                     /\ Head(a) = "[" /\ a[Len(a)] = "]"
                     /\ \A k \in 1..Len(ReportedArchs) :
                           \E at \in 1..Len(a) :
                               SubSeq(a, at, at + Len(ReportedArchs[k]) - 1) = ReportedArchs[k]

\* the requirements of a type reporting arm64 before x86_64
C7_Witness ==
    /\ requirements # {}
    /\ ReportedArchs = <<ArchitectureArm64, ArchX86_64>>

SeparatorPositions == {k \in 1..Len(i.InstanceType) : i.InstanceType[k] = "."}

FirstSeparator == CHOOSE k \in SeparatorPositions : \A j \in SeparatorPositions : k <= j

\* C8 as stated: a name with a separator is split at its first separator and
\* both labels are emitted; a name without one gets neither.
C8_SplitAtFirstSeparator ==
    \A q \in requirements :
        IF SeparatorPositions # {}
        THEN /\ {InstanceFamilyLabelKey, InstanceSizeLabelKey} \subseteq DOMAIN q
             /\ q[InstanceFamilyLabelKey] = {SubSeq(i.InstanceType, 1, FirstSeparator - 1)}
             /\ q[InstanceSizeLabelKey] =
                   {SubSeq(i.InstanceType, FirstSeparator + 1, Len(i.InstanceType))}
        ELSE {InstanceFamilyLabelKey, InstanceSizeLabelKey} \cap DOMAIN q = {}

\* C8 amended: the family and size labels are the text before and after the
\* separator exactly when the name holds exactly one separator; a name with
\* none, or with two or more, gets neither label.
C8_SplitIntoExactlyTwoParts ==
    \A q \in requirements :
        IF Cardinality(SeparatorPositions) = 1
        THEN /\ {InstanceFamilyLabelKey, InstanceSizeLabelKey} \subseteq DOMAIN q
             /\ q[InstanceFamilyLabelKey] = {SubSeq(i.InstanceType, 1, FirstSeparator - 1)}
             /\ q[InstanceSizeLabelKey] =
                   {SubSeq(i.InstanceType, FirstSeparator + 1, Len(i.InstanceType))}
        ELSE {InstanceFamilyLabelKey, InstanceSizeLabelKey} \cap DOMAIN q = {}

\* the requirements of a type whose name holds two separators
C8_Witness ==
    /\ requirements # {}
    /\ Cardinality(SeparatorPositions) = 2

\* C9: the zone and capacity-type sets are the distinct zones and capacity
\* types of the offerings; they are empty exactly when there is no offering,
\* and every other key maps to a non-empty set.
C9_OfferingSets ==
    \A q \in requirements :
        /\ q[LabelTopologyZone] = {i.offerings[k].Zone : k \in 1..Len(i.offerings)}
        /\ q[LabelCapacityType] = {i.offerings[k].CapacityType : k \in 1..Len(i.offerings)}
        /\ q[LabelTopologyZone] = {} <=> i.offerings = <<>>
        /\ q[LabelCapacityType] = {} <=> i.offerings = <<>>
        /\ \A key \in DOMAIN q \ {LabelTopologyZone, LabelCapacityType} : q[key] # {}

\* the requirements of a type offered in two zones with one capacity type
C9_Witness ==
    /\ requirements # {}
    /\ Len(i.offerings) = 2
    /\ \E q \in requirements :
          Cardinality(q[LabelTopologyZone]) = 2 /\ Cardinality(q[LabelCapacityType]) = 1

\* the counts that are present in the descriptors k..Len of list, summed
RECURSIVE PresentCounts(_, _)
PresentCounts(list, k) ==
    IF k > Len(list) THEN 0
    ELSE (IF list[k].Count = Nil THEN 0 ELSE list[k].Count[1]) + PresentCounts(list, k + 1)

GpuTotal == IF i.GpuInfo = Nil THEN 0 ELSE PresentCounts(i.GpuInfo[1].Gpus, 1)

InferenceTotal ==
    IF i.InferenceAcceleratorInfo = Nil THEN 0
    ELSE PresentCounts(i.InferenceAcceleratorInfo[1].Accelerators, 1)

StorageTotal == IF i.InstanceStorageInfo = Nil THEN 0 ELSE i.InstanceStorageInfo[1].TotalSizeInGB

\* 25600 * (memoryMiB / 1024 + 0.01 * localStorageGiB), less 25600 * 64 * hi
PriceFraction == 25 * i.MemoryInfo.SizeInMiB.lo + 256 * StorageTotal

\* C10: Price is 1 * vCPU + memoryMiB / 1024 + 5 * GPUs + 5 * accelerators
\* + 0.01 * localStorageGiB, absent sections counting 0, and a type that
\* differs only by having more vCPUs has a strictly greater Price.
C10_PriceFormulaAndMonotone ==
    \A p \in price :
        /\ p.whole = VCpus + 64 * i.MemoryInfo.SizeInMiB.hi + 5 * GpuTotal + 5 * InferenceTotal
                     + (PriceFraction \div 25600)
        /\ p.frac = PriceFraction % 25600
        /\ \A more \in (VCpus + 1)..(MaxVCpus + 1) :
              RatLess(p, Price([i EXCEPT !.VCpuInfo.DefaultVCpus = more]))

\* the price of a type with GPUs, accelerators and local storage
C10_Witness ==
    /\ price # {}
    /\ GpuTotal > 0
    /\ InferenceTotal > 0
    /\ StorageTotal = 99

====
